---- MODULE Spec2Model ----
(***************************************************************************)
(* m-cage: a minimal wlroots compositor (src/main.cpp).                    *)
(*                                                                         *)
(* Three specifications share this module:                                 *)
(*   SpecHandle    the resource handle w_ptr_wrapper_base, driven by every *)
(*                 sequence of its public operations;                      *)
(*   SpecListener  the subscription detail::listener_base over wl_list     *)
(*                 delivery lists, driven by every sequence of its public  *)
(*                 operations and of event firings;                        *)
(*   Spec          the server after construction: its seven listeners and  *)
(*                 the handlers they run.                                  *)
(***************************************************************************)
EXTENDS Integers, Sequences, FiniteSets, TLC

VARIABLES
  \* ---- resource handles (w_ptr_wrapper_base) ----
  h_alive,        \* the handle objects that are constructed and not yet destroyed
  h_ptr,          \* m_ptr of each handle object (NULL = 0 = nullptr)
  n_created,      \* number of resources create_fn has returned
  destroy_count,  \* per resource: how many times destroy_fn ran on it
  h_last,         \* the last operation: what it was and which destroy_fn calls it made
  \* ---- delivery lists (wl_list / wl_signal / detail::listener_base) ----
  links,          \* per list node (signal head or listener link): [prev, next]
  freed,          \* listener objects whose destructor has run (storage gone)
  notified,       \* the listeners whose notify ran in the last firing, in call order
  halt,           \* "none", or how the process stopped: "crashed" / "hung"
  reg,            \* per signal: the listeners in the order add_to_signal was called
  l_last,         \* the last listener operation or firing
  \* ---- server ----
  n_outputs,      \* outputs announced so far: output k is the k-th announced
  out_cfg,        \* per output: the state its last successful commit applied
  m_last_output,  \* server::m_last_output (0 = not yet assigned)
  layout,         \* m_output_layout: the outputs added, in list order
  scene_outputs,  \* m_scene: the outputs a scene-output was created for, in order
  sol,            \* m_scene_output_layout: <<layout output, scene-output>> pairs
  cur_pos,        \* m_cursor: layout position <<x, y>>
  cur_surface,    \* m_cursor: client image <<surface, hotspot_x, hotspot_y>>, surface 0 = none
  cur_xcursor,    \* m_cursor: theme image name, "" = none
  focused_client, \* m_seat.get()->pointer_state.focused_client (0 = none)
  trace,          \* the toolkit calls made while dispatching the last event
  ev,             \* the last event dispatched
  \* ---- server: input devices and client surfaces ----
  devices,        \* the class of each input device announced so far, in order
  cursor_devices, \* m_cursor: the devices attached to it
  seat_keyboard,  \* m_seat: its active keyboard (0 = none)
  surfaces,       \* the role of each xdg surface announced so far, in order
  scene_tree,     \* m_scene->tree: the surfaces that have a node, bottom to top
  \* ---- main(): the main thread, the watcher thread, signals, the client ----
  pc,             \* main thread: index of the step of MainSteps it is about to take
  ctor_pc,        \* server(): index of the step of CtorProgram it is about to take
  held,           \* the server's handles that are non-empty
  failed,         \* the creation step that returned empty ("" = none)
  empty_use,      \* TRUE once a toolkit call was made on an empty handle
  proc,           \* the process: "running", "aborted", "crashed", "hung", "killed", "returned"
  socket,         \* main's `socket`: "" before add_socket_auto, a name, or "NULL"
  env_wd,         \* the environment's WAYLAND_DISPLAY ("" = unset)
  child_pid,      \* main's child_pid (0 = its initial value)
  child,          \* the client process: "none", "running", "exited", "reaped"
  child_env,      \* WAYLAND_DISPLAY in the environment the client was given
  launches,       \* how many client processes were created
  pc_w,           \* sig_thread: "none", "acquire", "kill", "wait", "terminate", "done"
  sem,            \* the count of std::counting_semaphore<1> sem
  sem_overflow,   \* TRUE once release() was called with the count already at its maximum
  handler_installed, \* sigaction(SIGINT) has been called
  n_sigints,      \* SIGINTs delivered so far
  wait_eintr,     \* a handler ran on the watcher thread while it was in waitpid
  sigterm_to,     \* whom kill(child_pid, SIGTERM) signalled
  looping,        \* main is inside wl_display_run
  display_run,    \* wl_display's run flag
  stop_requests,  \* calls of wl_display_terminate so far
  stop_child,     \* the client's state at the last wl_display_terminate call
  sigint_in_loop, \* a SIGINT handler ran while the dispatch loop was running
  td_pc,          \* ~server(): index of the member of TeardownOrder destroyed next
  destroyed,      \* the members whose destructor did something, in order
  actor           \* who took the last step: "main", "watcher", "signal", "client"

handle_vars == <<h_alive, h_ptr, n_created, destroy_count, h_last>>
list_vars == <<links, freed, notified, halt, reg, l_last>>
input_vars == <<devices, cursor_devices, seat_keyboard, surfaces, scene_tree>>
server_vars == <<n_outputs, out_cfg, m_last_output, layout, scene_outputs, sol,
                 cur_pos, cur_surface, cur_xcursor, focused_client, trace, ev,
                 input_vars>>

main_vars == <<pc, ctor_pc, held, failed, empty_use, proc, socket, env_wd, child_pid,
               child, child_env, launches, pc_w, sem, sem_overflow, handler_installed,
               n_sigints, wait_eintr, sigterm_to, looping, display_run, stop_requests,
               stop_child, sigint_in_loop, td_pc, destroyed, actor>>

vars == <<handle_vars, list_vars, server_vars, main_vars>>

-----------------------------------------------------------------------------
(* Bounds *)
MaxHandles == 3
MaxResources == 2
MaxListeners == 2
MaxSignals == 2
MaxOutputs == 2
MaxDelta == 1
MaxDevices == 3
MaxSurfaces == 3
MaxInterrupts == 2

-----------------------------------------------------------------------------
(* w_ptr_wrapper_base<Derived, T>                                          *)

NULL == 0
Handles == 1..MaxHandles
Resources == 1..MaxResources

\* w_ptr_wrapper_base(w_ptr_wrapper_base &&other): m_ptr(other.m_ptr), then
\* other.m_ptr = nullptr
MoveCtorKeepsSource(ptrs, dst, src) == [ptrs EXCEPT ![dst] = ptrs[src]]
move_ctor(ptrs, dst, src) == [ptrs EXCEPT ![dst] = ptrs[src], ![src] = NULL]

\* operator=(w_ptr_wrapper_base &&other): std::swap(m_ptr, other.m_ptr)
move_assign_op(ptrs, dst, src) == [ptrs EXCEPT ![dst] = ptrs[src], ![src] = ptrs[dst]]

\* ~w_ptr_wrapper_base(): destroy_fn runs iff m_ptr != nullptr.  The result is
\* the sequence of pointers destroy_fn is invoked on.
dtor_calls(ptr) == IF ptr # NULL THEN <<ptr>> ELSE <<>>

RECURSIVE CountCalls(_, _)
CountCalls(calls, r) ==
  IF calls = <<>> THEN 0
  ELSE (IF Head(calls) = r THEN 1 ELSE 0) + CountCalls(Tail(calls), r)

HandleInit ==
  /\ h_alive = {}
  /\ h_ptr = [h \in Handles |-> NULL]
  /\ n_created = 0
  /\ destroy_count = [r \in Resources |-> 0]
  /\ h_last = [op |-> "none", dst |-> 0, src |-> 0, ptr |-> NULL, dptr |-> NULL, ran |-> <<>>]

\* w_ptr_wrapper_base() = default
default_construct(h) ==
  /\ h \notin h_alive
  /\ h_alive' = h_alive \cup {h}
  /\ h_ptr' = [h_ptr EXCEPT ![h] = NULL]
  /\ h_last' = [op |-> "default", dst |-> h, src |-> 0, ptr |-> NULL, dptr |-> NULL, ran |-> <<>>]
  /\ UNCHANGED <<n_created, destroy_count>>

\* try_create: create_fn returns a pointer (ok) or nullptr; on success the
\* optional holds Derived{ptr}, constructed in object h; on failure it is empty
\* and no handle object exists.
try_create(h, ok) ==
  /\ h \notin h_alive
  /\ IF ok
       THEN /\ n_created < MaxResources
            /\ n_created' = n_created + 1
            /\ h_alive' = h_alive \cup {h}
            /\ h_ptr' = [h_ptr EXCEPT ![h] = n_created + 1]
            /\ h_last' = [op |-> "try_create", dst |-> h, src |-> 0,
                          ptr |-> n_created + 1, dptr |-> NULL, ran |-> <<>>]
       ELSE /\ h_last' = [op |-> "try_create_failed", dst |-> 0, src |-> 0,
                          ptr |-> NULL, dptr |-> NULL, ran |-> <<>>]
            /\ UNCHANGED <<n_created, h_alive, h_ptr>>
  /\ UNCHANGED destroy_count

\* Derived dst{std::move(src)}
move_construct(dst, src) ==
  /\ dst \notin h_alive
  /\ src \in h_alive
  /\ h_alive' = h_alive \cup {dst}
  /\ h_ptr' = move_ctor(h_ptr, dst, src)
  /\ h_last' = [op |-> "move_construct", dst |-> dst, src |-> src,
                ptr |-> h_ptr[src], dptr |-> NULL, ran |-> <<>>]
  /\ UNCHANGED <<n_created, destroy_count>>

\* dst = std::move(src)
move_assign(dst, src) ==
  /\ dst \in h_alive
  /\ src \in h_alive
  /\ h_ptr' = move_assign_op(h_ptr, dst, src)
  /\ h_last' = [op |-> "move_assign", dst |-> dst, src |-> src,
                ptr |-> h_ptr[src], dptr |-> h_ptr[dst], ran |-> <<>>]
  /\ UNCHANGED <<h_alive, n_created, destroy_count>>

\* ~w_ptr_wrapper_base() of object h
destroy(h) ==
  /\ h \in h_alive
  /\ h_alive' = h_alive \ {h}
  /\ destroy_count' = [r \in Resources |->
                         destroy_count[r] + CountCalls(dtor_calls(h_ptr[h]), r)]
  /\ h_ptr' = [h_ptr EXCEPT ![h] = NULL]
  /\ h_last' = [op |-> "destroy", dst |-> h, src |-> 0, ptr |-> h_ptr[h],
                dptr |-> NULL, ran |-> dtor_calls(h_ptr[h])]
  /\ UNCHANGED n_created

HandleNext ==
  \/ \E h \in Handles : default_construct(h) /\ UNCHANGED <<list_vars, server_vars, main_vars>>
  \/ \E h \in Handles, ok \in BOOLEAN : try_create(h, ok) /\ UNCHANGED <<list_vars, server_vars, main_vars>>
  \/ \E dst \in Handles, src \in Handles : move_construct(dst, src) /\ UNCHANGED <<list_vars, server_vars, main_vars>>
  \/ \E dst \in Handles, src \in Handles : move_assign(dst, src) /\ UNCHANGED <<list_vars, server_vars, main_vars>>
  \/ \E h \in Handles : destroy(h) /\ UNCHANGED <<list_vars, server_vars, main_vars>>

HandleIdle ==
  /\ h_alive = {}
  /\ h_ptr = <<>>
  /\ n_created = 0
  /\ destroy_count = <<>>
  /\ h_last = <<>>

-----------------------------------------------------------------------------
(* wl_list, wl_signal: the intrusive delivery lists listener_base links     *)
(* itself into.  A node is a signal's list head or a listener's link.       *)

NullNode == <<"null", "", 0>>
CursorNode == <<"emit", "cursor", 0>>
EndNode == <<"emit", "end", 0>>
NullLink == [prev |-> NullNode, next |-> NullNode]

IsListener(n) == n[1] = "listener"

\* A machine state of the list code: the links, and the first fault met:
\* "null" (a null pointer dereferenced), "wild" (a call through a record that
\* is no listener), "hang" (a traversal that never ends), "uaf" (storage of a
\* destroyed listener read or written).
Machine(ls, fr) == [ls |-> ls, fault |-> "none", freed |-> fr]
Stopped(m) == m.fault \in {"null", "wild", "hang"}

Touch(m, n) ==
  IF Stopped(m) THEN m
  ELSE IF n = NullNode THEN [m EXCEPT !.fault = "null"]
  ELSE IF n \in m.freed THEN [m EXCEPT !.fault = "uaf"]
  ELSE m

\* wl_list_insert(list, elm): elm->prev = list; elm->next = list->next;
\* list->next = elm; elm->next->prev = elm;
wl_list_insert(m, list, elm) ==
  LET m0 == Touch(Touch(m, list), elm) IN
  IF Stopped(m0) THEN m0
  ELSE
    LET l1 == [m0.ls EXCEPT ![elm].prev = list]
        l2 == [l1 EXCEPT ![elm].next = l1[list].next]
        l3 == [l2 EXCEPT ![list].next = elm]
        m1 == Touch(m0, l3[elm].next)
    IN IF Stopped(m1) THEN m1
       ELSE [m1 EXCEPT !.ls = [l3 EXCEPT ![l3[elm].next].prev = elm]]

\* wl_list_remove(elm): elm->prev->next = elm->next; elm->next->prev =
\* elm->prev; elm->next = NULL; elm->prev = NULL;
wl_list_remove(m, elm) ==
  LET m0 == Touch(m, elm) IN
  IF Stopped(m0) THEN m0
  ELSE
    LET m1 == Touch(m0, m0.ls[elm].prev) IN
    IF Stopped(m1) THEN m1
    ELSE
      LET l1 == [m1.ls EXCEPT ![m1.ls[elm].prev].next = m1.ls[elm].next]
          m2 == Touch(m1, l1[elm].next)
      IN IF Stopped(m2) THEN m2
         ELSE
           LET l2 == [l1 EXCEPT ![l1[elm].next].prev = l1[elm].prev]
           IN [m2 EXCEPT !.ls = [l2 EXCEPT ![elm] = NullLink]]

\* wl_signal_add(signal, listener):
\* wl_list_insert(signal->listener_list.prev, &listener->link)
wl_signal_add(m, head, l) ==
  LET m0 == Touch(m, head) IN
  IF Stopped(m0) THEN m0 ELSE wl_list_insert(m0, m0.ls[head].prev, l)

\* wl_signal_emit_mutable(signal, data): a cursor and an end marker are linked
\* in at the front and the back of the list; each listener found after the
\* cursor is stepped over by the cursor and then notified, until the cursor
\* reaches the end marker.  The result is the machine state and the listeners
\* notified, in call order.
RECURSIVE emit_loop(_, _, _)
emit_loop(m, called, fuel) ==
  IF Stopped(m) THEN [m |-> m, called |-> called]
  ELSE
    LET pos == m.ls[CursorNode].next IN
    IF pos = EndNode THEN [m |-> m, called |-> called]
    ELSE IF fuel = 0 THEN [m |-> [m EXCEPT !.fault = "hang"], called |-> called]
    ELSE IF pos = NullNode THEN [m |-> [m EXCEPT !.fault = "null"], called |-> called]
    ELSE IF ~IsListener(pos) THEN [m |-> [m EXCEPT !.fault = "wild"], called |-> called]
    ELSE
      LET m1 == wl_list_insert(wl_list_remove(m, CursorNode), pos, CursorNode)
      IN IF Stopped(m1) THEN [m |-> m1, called |-> called]
         ELSE emit_loop(Touch(m1, pos), Append(called, pos), fuel - 1)

wl_signal_emit_mutable(m, head) ==
  LET m1 == wl_list_insert(m, head, CursorNode)
      m2 == IF Stopped(m1) THEN m1 ELSE wl_list_insert(m1, m1.ls[head].prev, EndNode)
      r  == emit_loop(m2, <<>>, Cardinality(DOMAIN m.ls) + 1)
      m3 == wl_list_remove(r.m, CursorNode)
      m4 == wl_list_remove(m3, EndNode)
  IN [m |-> m4, called |-> r.called]

\* What a fault does to the process.  A null dereference, a call through a
\* non-listener and an endless loop stop it; a use of destroyed storage either
\* crashes or goes on with the stale contents.
FaultOutcomes(m) ==
  CASE m.fault = "none" -> {"none"}
    [] m.fault = "uaf"  -> {"none", "crashed"}
    [] m.fault = "hang" -> {"hung"}
    [] OTHER            -> {"crashed"}

\* The listeners on a signal's list, front to back (following next from the
\* head, at most as many steps as there are nodes).
RECURSIVE WalkFrom(_, _, _, _)
WalkFrom(ls, head, n, fuel) ==
  IF n = head \/ n = NullNode \/ fuel = 0 \/ ~IsListener(n) THEN <<>>
  ELSE <<n>> \o WalkFrom(ls, head, ls[n].next, fuel - 1)

ListOf(ls, head) == WalkFrom(ls, head, ls[head].next, Cardinality(DOMAIN ls))

SeqToSet(q) == {q[i] : i \in 1..Len(q)}

-----------------------------------------------------------------------------
(* detail::listener_base<Struct, Data>, driven through its public         *)
(* operations with the event sources firing in between                     *)

Signal(s) == <<"signal", "source", s>>
Listener(i) == <<"listener", "subscription", i>>
HSignals == {Signal(s) : s \in 1..MaxSignals}
HListeners == {Listener(i) : i \in 1..MaxListeners}

NoOp == [op |-> "none", node |-> NullNode, head |-> NullNode]

\* listener_base(self, F): m_listener{.notify = ...}, so link is {NULL, NULL};
\* wl_signal_init(signal): the head links to itself
ListenerInit ==
  /\ links = [n \in HSignals \cup HListeners \cup {CursorNode, EndNode} |->
                IF n \in HSignals THEN [prev |-> n, next |-> n] ELSE NullLink]
  /\ freed = {}
  /\ notified = <<>>
  /\ halt = "none"
  /\ reg = [h \in HSignals |-> <<>>]
  /\ l_last = NoOp

\* listener_base::add_to_signal(signal): wl_signal_add(&signal, get())
add_to_signal(l, head) ==
  /\ halt = "none"
  /\ l \notin freed
  /\ l \notin SeqToSet(reg[head])
  /\ LET m == wl_signal_add(Machine(links, freed), head, l) IN
     \E out \in FaultOutcomes(m) :
       /\ halt' = out
       /\ links' = IF out = "none" THEN m.ls ELSE links
  /\ reg' = [reg EXCEPT ![head] = Append(@, l)]
  /\ l_last' = [op |-> "add", node |-> l, head |-> head]
  /\ UNCHANGED <<freed, notified>>

\* listener_base::~listener_base(): wl_list_remove(&m_listener.link)
destroy_listener(l) ==
  /\ halt = "none"
  /\ l \notin freed
  /\ LET m == wl_list_remove(Machine(links, freed), l) IN
     \E out \in FaultOutcomes(m) :
       /\ halt' = out
       /\ links' = IF out = "none" THEN m.ls ELSE links
  /\ freed' = freed \cup {l}
  /\ l_last' = [op |-> "destroy", node |-> l, head |-> NullNode]
  /\ UNCHANGED <<notified, reg>>

\* An event source fires: every listener on its list is notified, and the
\* notify lambda invokes the handler F with m_self_ptr.
emit(head) ==
  /\ halt = "none"
  /\ LET r == wl_signal_emit_mutable(Machine(links, freed), head) IN
     \E out \in FaultOutcomes(r.m) :
       /\ halt' = out
       /\ links' = IF out = "none" THEN r.m.ls ELSE links
       /\ notified' = r.called
  /\ l_last' = [op |-> "emit", node |-> NullNode, head |-> head]
  /\ UNCHANGED <<freed, reg>>

ListenerNext ==
  \/ \E l \in HListeners, h \in HSignals : add_to_signal(l, h) /\ UNCHANGED <<handle_vars, server_vars, main_vars>>
  \/ \E l \in HListeners : destroy_listener(l) /\ UNCHANGED <<handle_vars, server_vars, main_vars>>
  \/ \E h \in HSignals : emit(h) /\ UNCHANGED <<handle_vars, server_vars, main_vars>>

ListIdle ==
  /\ links = <<>>
  /\ freed = {}
  /\ notified = <<>>
  /\ halt = "none"
  /\ reg = <<>>
  /\ l_last = <<>>
-----------------------------------------------------------------------------
(* The toolkit calls the server's handlers make, at their contract          *)

Outputs == 1..MaxOutputs
Deltas == {-MaxDelta, 0, MaxDelta}
Clients == {1, 2}
\* The clients the pointer focus may rest on (0: on none).  The two clients
\* are interchangeable, so client 2 stands for any client without the focus.
FocusChoices == {0, 1}
NoMode == 0
Modes == {NoMode, 1}
\* wlr_seat_pointer_request_set_cursor_event: <<surface, hotspot_x, hotspot_y>>
\* (surface 0: the client asks for no image)
ReqImages == {<<0, 0, 0>>, <<1, 1, 2>>}

\* The size an enabled output has: its mode's, or the driver default when no
\* mode was set.
ModeSize(m) == IF m = NoMode THEN <<1, 2>> ELSE <<2, 1>>

\* wlr_output_state: the transient configuration request
wlr_output_state_init == [enabled |-> "unset", mode |-> NoMode]
wlr_output_state_set_enabled(st, b) ==
  [st EXCEPT !.enabled = IF b THEN "true" ELSE "false"]
wlr_output_state_set_mode(st, m) == [st EXCEPT !.mode = m]

\* lines 339-344: the request new-output builds from the preferred mode
NewOutputRequestDropsMode(pmode) ==
  wlr_output_state_set_enabled(wlr_output_state_init, TRUE)
new_output_request(pmode) ==
  LET st == wlr_output_state_set_enabled(wlr_output_state_init, TRUE)
  IN IF pmode # NoMode THEN wlr_output_state_set_mode(st, pmode) ELSE st

NoReq == [enabled |-> "", mode |-> NoMode]
Call(name, out, so, req) == [call |-> name, out |-> out, so |-> so, req |-> req]

\* wlr_output_commit_state(output, state): applies the request if it succeeds
wlr_output_commit_state(cfg, o, req, ok) ==
  IF ok THEN [cfg EXCEPT ![o] = [enabled |-> req.enabled, mode |-> req.mode]]
  ELSE cfg

\* wlr_output_layout: outputs added with add_auto are placed left to right in
\* list order, each as wide and high as the output currently is (0 x 0 while
\* it is not enabled).
OutputSize(cfg, o) ==
  IF cfg[o].enabled = "true" THEN ModeSize(cfg[o].mode) ELSE <<0, 0>>

RECURSIVE LayoutBoxes(_, _, _)
LayoutBoxes(lay, cfg, x) ==
  IF lay = <<>> THEN <<>>
  ELSE LET sz == OutputSize(cfg, Head(lay))
       IN <<[x |-> x, y |-> 0, w |-> sz[1], h |-> sz[2]]>>
            \o LayoutBoxes(Tail(lay), cfg, x + sz[1])

BoxEmpty(b) == b.w <= 0 \/ b.h <= 0
InBox(b, p) == /\ b.x <= p[1] /\ p[1] <= b.x + b.w - 1
               /\ b.y <= p[2] /\ p[2] <= b.y + b.h - 1

Clamp(v, lo, hi) == IF v < lo THEN lo ELSE IF v > hi THEN hi ELSE v
Dist2(p, q) == (p[1] - q[1]) * (p[1] - q[1]) + (p[2] - q[2]) * (p[2] - q[2])

\* wlr_box_closest_point
wlr_box_closest_point(b, p) ==
  <<Clamp(p[1], b.x, b.x + b.w - 1), Clamp(p[2], b.y, b.y + b.h - 1)>>

\* wlr_output_layout_closest_point: the closest point of the first output
\* that is strictly closer than those before it
RECURSIVE ClosestOver(_, _, _, _)
ClosestOver(boxes, p, best, bestd) ==
  IF boxes = <<>> THEN best
  ELSE LET b == Head(boxes)
           c == wlr_box_closest_point(b, p)
       IN IF ~BoxEmpty(b) /\ (bestd < 0 \/ Dist2(c, p) < bestd)
            THEN ClosestOver(Tail(boxes), p, c, Dist2(c, p))
            ELSE ClosestOver(Tail(boxes), p, best, bestd)

HasRegion(boxes) == \E i \in 1..Len(boxes) : ~BoxEmpty(boxes[i])

\* wlr_cursor_move(cur, dev, dx, dy) on a cursor attached to the layout: warp to
\* the closest point of the layout to (x + dx, y + dy), which is that point
\* itself while the layout has no region.
CursorMoveUnclamped(pos, boxes, dx, dy) == <<pos[1] + dx, pos[2] + dy>>
wlr_cursor_move(pos, boxes, dx, dy) ==
  LET p == <<pos[1] + dx, pos[2] + dy>>
  IN ClosestOver(boxes, p, p, -1)

\* wlr_cursor_set_xcursor / wlr_cursor_set_surface: each replaces whatever image
\* the cursor had; the result is <<surface image, theme image name>>
wlr_cursor_set_xcursor(name) == <<<<0, 0, 0>>, name>>
CursorSetSurfaceKeepsTheme(img, xc) == <<img, xc>>
wlr_cursor_set_surface(img, xc) == <<img, "">>

\* wlr_scene_get_scene_output(scene, output): the scene-output created for the
\* output (its index in creation order), 0 (NULL) if there is none
RECURSIVE IndexOf(_, _, _)
IndexOf(q, x, i) ==
  IF i > Len(q) THEN 0 ELSE IF q[i] = x THEN i ELSE IndexOf(q, x, i + 1)
wlr_scene_get_scene_output(sos, o) == IndexOf(sos, o, 1)

-----------------------------------------------------------------------------
(* server: signals, listeners, constructor                                 *)

SigNewOutput == <<"signal", "backend.new_output", 0>>
SigNewInput == <<"signal", "backend.new_input", 0>>
SigCursorMotion == <<"signal", "cursor.motion", 0>>
SigCursorFrame == <<"signal", "cursor.frame", 0>>
SigRequestSetCursor == <<"signal", "seat.request_set_cursor", 0>>
SigNewSurface == <<"signal", "xdg_shell.new_surface", 0>>
SigOutputFrame(o) == <<"signal", "output.frame", o>>

LNewOutput == <<"listener", "m_listener_new_output", 0>>
LNewInput == <<"listener", "m_listener_new_input", 0>>
LRequestCursor == <<"listener", "m_listener_request_cursor", 0>>
LCursorFrame == <<"listener", "m_listener_cursor_frame", 0>>
LCursorMotion == <<"listener", "m_listener_cursor_motion", 0>>
LNewXdgToplevel == <<"listener", "m_listener_new_xdg_toplevel", 0>>
LOutputFrame == <<"listener", "m_listener_output_frame", 0>>

SrvSignals == {SigNewOutput, SigNewInput, SigCursorMotion, SigCursorFrame,
               SigRequestSetCursor, SigNewSurface}
                 \cup {SigOutputFrame(o) : o \in Outputs}
SrvListeners == {LNewOutput, LNewInput, LRequestCursor, LCursorFrame,
                 LCursorMotion, LNewXdgToplevel, LOutputFrame}

\* The member initialisers construct the seven listeners unlinked; server()
\* then adds six of them to their signals (lines 282-307).  m_listener_output_frame
\* is added by no line of the constructor.
ConstructedLinks ==
  LET l0 == [n \in SrvSignals \cup SrvListeners \cup {CursorNode, EndNode} |->
               IF n \in SrvSignals THEN [prev |-> n, next |-> n] ELSE NullLink]
      m1 == wl_signal_add(Machine(l0, {}), SigNewOutput, LNewOutput)
      m2 == wl_signal_add(m1, SigNewInput, LNewInput)
      m3 == wl_signal_add(m2, SigCursorMotion, LCursorMotion)
      m4 == wl_signal_add(m3, SigCursorFrame, LCursorFrame)
      m5 == wl_signal_add(m4, SigRequestSetCursor, LRequestCursor)
      m6 == wl_signal_add(m5, SigNewSurface, LNewXdgToplevel)
  IN m6.ls

Event(type, output, mode, ok, client, img, delta) ==
  [type |-> type, output |-> output, mode |-> mode, ok |-> ok,
   client |-> client, img |-> img, delta |-> delta]

ServerInit ==
  /\ freed = {}
  /\ links = ConstructedLinks
  /\ notified = <<>>
  /\ halt = "none"
  /\ reg = <<>>
  /\ l_last = <<>>
  /\ n_outputs = 0
  /\ out_cfg = [o \in Outputs |-> [enabled |-> "false", mode |-> NoMode]]
  /\ m_last_output = 0
  /\ layout = <<>>
  /\ scene_outputs = <<>>
  /\ sol = {}
  /\ cur_pos = <<0, 0>>
  /\ cur_surface = <<0, 0, 0>>
  /\ cur_xcursor = ""
  /\ focused_client = 0
  /\ trace = <<>>
  /\ ev = Event("none", 0, NoMode, TRUE, 0, <<0, 0, 0>>, <<0, 0>>)
  /\ devices = <<>>
  /\ cursor_devices = {}
  /\ seat_keyboard = 0
  /\ surfaces = <<>>
  /\ scene_tree = <<>>

-----------------------------------------------------------------------------
(* server: the handlers.  A handler maps the server's state S to its state   *)
(* after the handler returned; S.trace collects the toolkit calls made.      *)

ServerState ==
  [ls |-> links, fault |-> "none", freed |-> freed, out_cfg |-> out_cfg,
   m_last_output |-> m_last_output, layout |-> layout,
   scene_outputs |-> scene_outputs, sol |-> sol, cur_pos |-> cur_pos,
   cur_surface |-> cur_surface, cur_xcursor |-> cur_xcursor, trace |-> <<>>,
   cursor_devices |-> cursor_devices, seat_keyboard |-> seat_keyboard,
   scene_tree |-> scene_tree]

\* m_listener_new_output (lines 334-358)
h_new_output(S, e) ==
  LET o == e.output
      req == new_output_request(e.mode)
      t1 == <<Call("wlr_output_init_render", o, 0, NoReq),
              Call("wlr_output_state_init", 0, 0, NoReq),
              Call("wlr_output_state_set_enabled", 0, 0, NoReq)>>
      t2 == IF e.mode # NoMode
              THEN <<Call("wlr_output_state_set_mode", 0, 0, NoReq)>> ELSE <<>>
      t3 == <<Call("wlr_output_commit_state", o, 0, req),
              Call("wlr_output_state_finish", 0, 0, NoReq)>>
      m  == wl_signal_add([ls |-> S.ls, fault |-> S.fault, freed |-> S.freed],
                          SigOutputFrame(o), LOutputFrame)
      lo == Len(S.layout) + 1
      so == Len(S.scene_outputs) + 1
      t4 == <<Call("wl_signal_add", o, 0, NoReq),
              Call("wlr_output_layout_add_auto", o, 0, NoReq),
              Call("wlr_scene_output_create", o, so, NoReq),
              Call("wlr_scene_output_layout_add_output", lo, so, NoReq)>>
  IN [S EXCEPT
        !.out_cfg = wlr_output_commit_state(S.out_cfg, o, req, e.ok),
        !.m_last_output = o,
        !.ls = m.ls,
        !.fault = m.fault,
        !.layout = Append(S.layout, o),
        !.scene_outputs = Append(S.scene_outputs, o),
        !.sol = S.sol \cup {<<lo, so>>},
        !.trace = S.trace \o t1 \o t2 \o t3 \o t4]

\* m_listener_output_frame (lines 416-425)
h_output_frame(S, e) ==
  LET so == wlr_scene_get_scene_output(S.scene_outputs, S.m_last_output)
  IN IF so = 0
       THEN [S EXCEPT !.fault = "null"]
       ELSE [S EXCEPT !.trace = S.trace \o
               <<Call("wlr_scene_output_commit", 0, so, NoReq),
                 Call("wlr_scene_output_send_frame_done", 0, so, NoReq)>>]

\* m_listener_request_cursor (lines 379-386)
HRequestCursorAnyClient(S, e) ==
  LET c == wlr_cursor_set_surface(e.img, S.cur_xcursor)
  IN [S EXCEPT !.cur_surface = c[1], !.cur_xcursor = c[2],
               !.trace = S.trace \o <<Call("wlr_cursor_set_surface", 0, 0, NoReq)>>]
h_request_cursor(S, e) ==
  IF focused_client = e.client
    THEN LET c == wlr_cursor_set_surface(e.img, S.cur_xcursor)
         IN [S EXCEPT !.cur_surface = c[1], !.cur_xcursor = c[2],
                      !.trace = S.trace \o <<Call("wlr_cursor_set_surface", 0, 0, NoReq)>>]
    ELSE S

\* m_listener_cursor_motion (lines 391-396)
h_cursor_motion(S, e) ==
  LET c == wlr_cursor_set_xcursor("default")
  IN [S EXCEPT
        !.cur_pos = wlr_cursor_move(S.cur_pos, LayoutBoxes(S.layout, S.out_cfg, 0),
                                    e.delta[1], e.delta[2]),
        !.cur_surface = c[1],
        !.cur_xcursor = c[2],
        !.trace = S.trace \o <<Call("wlr_cursor_move", 0, 0, NoReq),
                               Call("wlr_cursor_set_xcursor", 0, 0, NoReq)>>]

\* wlr_cursor_attach_input_device / wlr_seat_set_keyboard
wlr_cursor_attach_input_device(devs, d) == devs \cup {d}
wlr_seat_set_keyboard(kbd, d) == d

\* m_listener_new_input (lines 360-377)
HNewInputAttachesAnyClass(S, e) ==
  [S EXCEPT !.cursor_devices = wlr_cursor_attach_input_device(S.cursor_devices, e.device),
            !.trace = S.trace \o <<Call("wlr_cursor_attach_input_device", e.device, 0, NoReq)>>]
h_new_input(S, e) ==
  CASE e.class = "pointer" ->
         [S EXCEPT !.cursor_devices =
                      wlr_cursor_attach_input_device(S.cursor_devices, e.device),
                   !.trace = S.trace \o
                      <<Call("wlr_cursor_attach_input_device", e.device, 0, NoReq)>>]
    [] e.class = "keyboard" ->
         [S EXCEPT !.seat_keyboard = wlr_seat_set_keyboard(S.seat_keyboard, e.device),
                   !.trace = S.trace \o
                      <<Call("wlr_seat_set_keyboard", e.device, 0, NoReq)>>]
    [] OTHER -> S

\* wlr_scene_xdg_surface_create(parent, surface): a new node for the surface,
\* added as the last (topmost) child of parent
wlr_scene_xdg_surface_create(tree, s) == Append(tree, s)
\* wlr_scene_node_raise_to_top(node): the node becomes the last child
wlr_scene_node_raise_to_top(tree, s) ==
  SelectSeq(tree, LAMBDA x : x # s) \o SelectSeq(tree, LAMBDA x : x = s)

\* m_listener_new_xdg_toplevel (lines 398-414)
HNewSurfaceAnyRole(S, e) ==
  [S EXCEPT !.scene_tree = wlr_scene_node_raise_to_top(
                             wlr_scene_xdg_surface_create(S.scene_tree, e.surface),
                             e.surface)]
h_new_xdg_toplevel(S, e) ==
  IF e.role # "toplevel" THEN S
  ELSE [S EXCEPT !.scene_tree = wlr_scene_node_raise_to_top(
                                  wlr_scene_xdg_surface_create(S.scene_tree, e.surface),
                                  e.surface),
                 !.trace = S.trace \o
                    <<Call("wlr_scene_xdg_surface_create", e.surface, 0, NoReq),
                      Call("wlr_scene_node_raise_to_top", e.surface, 0, NoReq)>>]

\* m_listener_cursor_frame (lines 388-389)
h_cursor_frame(S, e) ==
  [S EXCEPT !.trace = S.trace \o <<Call("wlr_seat_pointer_notify_frame", 0, 0, NoReq)>>]

\* The notify lambda of listener l (lines 247-254): F{}(pl->m_self_ptr, data)
Notify(S, l, e) ==
  CASE l = LNewOutput      -> h_new_output(S, e)
    [] l = LOutputFrame    -> h_output_frame(S, e)
    [] l = LRequestCursor  -> h_request_cursor(S, e)
    [] l = LCursorMotion   -> h_cursor_motion(S, e)
    [] l = LNewInput       -> h_new_input(S, e)
    [] l = LNewXdgToplevel -> h_new_xdg_toplevel(S, e)
    [] l = LCursorFrame    -> h_cursor_frame(S, e)
    [] OTHER               -> S

RECURSIVE NotifyAll(_, _, _)
NotifyAll(S, called, e) ==
  IF called = <<>> \/ S.fault \in {"null", "wild", "hang"} THEN S
  ELSE NotifyAll(Notify(S, Head(called), e), Tail(called), e)

\* The dispatch loop delivers one event, any one of `events`, on the signal
\* `head`: the signal fires and every listener on its list runs its handler
\* to completion.
Dispatch(head, events) ==
  /\ halt = "none"
  /\ \E r \in {wl_signal_emit_mutable(Machine(links, freed), head)} :
     \E e \in events :
     \E S \in {NotifyAll([ServerState EXCEPT !.ls = r.m.ls, !.fault = r.m.fault],
                         r.called, e)} :
        /\ \E out \in FaultOutcomes(S) : halt' = out
        /\ links' = S.ls
        /\ notified' = r.called
        /\ out_cfg' = S.out_cfg
        /\ m_last_output' = S.m_last_output
        /\ layout' = S.layout
        /\ scene_outputs' = S.scene_outputs
        /\ sol' = S.sol
        /\ cur_pos' = S.cur_pos
        /\ cur_surface' = S.cur_surface
        /\ cur_xcursor' = S.cur_xcursor
        /\ cursor_devices' = S.cursor_devices
        /\ seat_keyboard' = S.seat_keyboard
        /\ scene_tree' = S.scene_tree
        /\ trace' = S.trace
        /\ ev' = e
  /\ UNCHANGED <<freed, reg, l_last>>

\* The backend announces an output, with or without a preferred mode, whose
\* commit will succeed or fail.
new_output ==
  /\ n_outputs < MaxOutputs
  /\ n_outputs' = n_outputs + 1
  /\ Dispatch(SigNewOutput,
              {Event("new_output", n_outputs + 1, mode, ok, 0, <<0, 0, 0>>, <<0, 0>>) :
                 mode \in Modes, ok \in BOOLEAN})
  /\ UNCHANGED focused_client

\* An announced output that is enabled completes a frame.
output_frame(o) ==
  /\ o <= n_outputs
  /\ out_cfg[o].enabled = "true"
  /\ Dispatch(SigOutputFrame(o),
              {Event("frame", o, NoMode, TRUE, 0, <<0, 0, 0>>, <<0, 0>>)})
  /\ UNCHANGED <<n_outputs, focused_client>>

\* A client asks the seat for a cursor image.
request_set_cursor ==
  /\ Dispatch(SigRequestSetCursor,
              {Event("request_set_cursor", 0, NoMode, TRUE, client, img, <<0, 0>>) :
                 client \in Clients, img \in ReqImages})
  /\ UNCHANGED <<n_outputs, focused_client>>

\* The cursor reports relative motion.  While the layout has no region the
\* cursor is free, and only motions that keep it near the origin are taken.
cursor_motion ==
  /\ Dispatch(SigCursorMotion,
              {Event("motion", 0, NoMode, TRUE, 0, <<0, 0, 0>>, d) :
                 d \in {d \in Deltas \X Deltas :
                          \/ HasRegion(LayoutBoxes(layout, out_cfg, 0))
                          \/ /\ cur_pos[1] + d[1] \in (-MaxDelta)..MaxDelta
                             /\ cur_pos[2] + d[2] \in (-MaxDelta)..MaxDelta}})
  /\ UNCHANGED <<n_outputs, focused_client>>

\* The seat's pointer focus moves to a client, or to none (the toolkit's
\* state, which the server only reads at line 381).
pointer_focus(c) ==
  /\ halt = "none"
  /\ focused_client # c
  /\ focused_client' = c
  /\ ev' = Event("pointer_focus", 0, NoMode, TRUE, c, <<0, 0, 0>>, <<0, 0>>)
  /\ trace' = <<>>
  /\ notified' = <<>>
  /\ UNCHANGED <<links, freed, halt, reg, l_last, n_outputs, out_cfg, m_last_output,
                 layout, scene_outputs, sol, cur_pos, cur_surface, cur_xcursor,
                 cursor_devices, seat_keyboard, scene_tree>>

ServerNext ==
  \/ new_output /\ UNCHANGED <<handle_vars, devices, surfaces, main_vars>>
  \/ \E o \in Outputs : output_frame(o) /\ UNCHANGED <<handle_vars, devices, surfaces, main_vars>>
  \/ request_set_cursor /\ UNCHANGED <<handle_vars, devices, surfaces, main_vars>>
  \/ cursor_motion /\ UNCHANGED <<handle_vars, devices, surfaces, main_vars>>
  \/ \E c \in FocusChoices :
        pointer_focus(c) /\ UNCHANGED <<handle_vars, devices, surfaces, main_vars>>

-----------------------------------------------------------------------------
(* server: input devices and client surfaces                                 *)

DeviceClasses == {"pointer", "keyboard", "touch"}
SurfaceRoles == {"toplevel", "popup"}

\* The backend announces an input device of some class.
new_input(class) ==
  /\ Len(devices) < MaxDevices
  /\ devices' = Append(devices, class)
  /\ Dispatch(SigNewInput,
              {[type |-> "new_input", device |-> Len(devices) + 1, class |-> class]})
  /\ UNCHANGED <<n_outputs, focused_client, surfaces>>

\* The shell announces a surface that was given a role.
new_surface(role) ==
  /\ Len(surfaces) < MaxSurfaces
  /\ surfaces' = Append(surfaces, role)
  /\ Dispatch(SigNewSurface,
              {[type |-> "new_surface", surface |-> Len(surfaces) + 1, role |-> role]})
  /\ UNCHANGED <<n_outputs, focused_client, devices>>

\* The cursor reports the end of a group of pointer events.
cursor_frame ==
  /\ cursor_devices # {}
  /\ Dispatch(SigCursorFrame, {[type |-> "cursor_frame"]})
  /\ UNCHANGED <<n_outputs, focused_client, devices, surfaces>>

InputNext ==
  \/ \E class \in DeviceClasses : new_input(class) /\ UNCHANGED <<handle_vars, main_vars>>
  \/ \E role \in SurfaceRoles : new_surface(role) /\ UNCHANGED <<handle_vars, main_vars>>
  \/ cursor_frame /\ UNCHANGED <<handle_vars, main_vars>>

ServerIdle ==
  /\ n_outputs = 0
  /\ out_cfg = <<>>
  /\ m_last_output = 0
  /\ layout = <<>>
  /\ scene_outputs = <<>>
  /\ sol = {}
  /\ cur_pos = <<0, 0>>
  /\ cur_surface = <<0, 0, 0>>
  /\ cur_xcursor = ""
  /\ focused_client = 0
  /\ trace = <<>>
  /\ ev = <<>>
  /\ devices = <<>>
  /\ cursor_devices = {}
  /\ seat_keyboard = 0
  /\ surfaces = <<>>
  /\ scene_tree = <<>>

-----------------------------------------------------------------------------
(* main(): construction, the client process, the watcher thread, the       *)
(* dispatch loop, teardown                                                  *)

Create(res, uses) == [op |-> "create", res |-> res, uses |-> uses]
Use(name, uses) == [op |-> "use", res |-> name, uses |-> uses]
Add(l, sig, uses) == [op |-> "add", res |-> l, sig |-> sig, uses |-> uses]

\* server::server() (lines 271-308), statement by statement: what it creates,
\* which handles it calls get() or events() on.
CtorProgram ==
  << Create("display", {}),
     Create("backend", {"display"}),
     Create("renderer", {"backend"}),
     Use("init_wl_display", {"renderer", "display"}),
     Create("allocator", {"backend", "renderer"}),
     Use("init_compositor", {"display", "renderer"}),
     Use("init_subcompositor", {"display"}),
     Use("init_data_device_manager", {"display"}),
     Add(LNewOutput, SigNewOutput, {"backend"}),
     Create("output_layout", {}),
     Create("scene", {}),
     Use("wlr_scene_attach_output_layout", {"scene", "output_layout"}),
     Create("cursor", {}),
     Use("attach_output_layout", {"cursor", "output_layout"}),
     Add(LNewInput, SigNewInput, {"backend"}),
     Add(LCursorMotion, SigCursorMotion, {"cursor"}),
     Add(LCursorFrame, SigCursorFrame, {"cursor"}),
     Create("seat", {"display"}),
     Add(LRequestCursor, SigRequestSetCursor, {"seat"}),
     Create("xcursor_manager", {}),
     Use("init_xdg_shell", {"display"}),
     Add(LNewXdgToplevel, SigNewSurface, {"display"}) >>

\* The resources in the order the constructor acquires them.
AcquisitionOrder ==
  LET creates == SelectSeq(CtorProgram, LAMBDA st : st.op = "create")
  IN [i \in 1..Len(creates) |-> creates[i].res]

\* The members that have a destructor, in declaration order (lines 314-329,
\* 334-425); they are destroyed in the reverse order.
Handle(res) == <<"handle", res, 0>>
DeclarationOrder ==
  << Handle("display"), Handle("backend"), Handle("renderer"), Handle("allocator"),
     Handle("scene"), Handle("output_layout"), Handle("cursor"), Handle("seat"),
     Handle("xcursor_manager"),
     LNewOutput, LNewInput, LRequestCursor, LCursorFrame, LCursorMotion,
     LNewXdgToplevel, LOutputFrame >>
TeardownOrder ==
  [i \in 1..Len(DeclarationOrder) |->
     DeclarationOrder[Len(DeclarationOrder) + 1 - i]]

\* main() (lines 431-469), step by step.
MainStepsSpawnBeforeSetenv ==
  << "server", "add_socket_auto", "start", "posix_spawnp", "setenv", "jthread",
     "sigaction", "run", "join", "~server", "return" >>
MainSteps ==
  << "server", "add_socket_auto", "start", "setenv", "posix_spawnp", "jthread",
     "sigaction", "run", "join", "~server", "return" >>

At(step) == proc = "running" /\ pc <= Len(MainSteps) /\ MainSteps[pc] = step

\* The member initialisers: every signal's list is empty, every listener is
\* unlinked.
MemberInitLinks ==
  [n \in SrvSignals \cup SrvListeners \cup {CursorNode, EndNode} |->
     IF n \in SrvSignals THEN [prev |-> n, next |-> n] ELSE NullLink]

MainInit ==
  /\ freed = {}
  /\ links = MemberInitLinks
  /\ notified = <<>>
  /\ halt = "none"
  /\ reg = <<>>
  /\ l_last = <<>>
  /\ n_outputs = 0
  /\ out_cfg = [o \in Outputs |-> [enabled |-> "false", mode |-> NoMode]]
  /\ m_last_output = 0
  /\ layout = <<>>
  /\ scene_outputs = <<>>
  /\ sol = {}
  /\ cur_pos = <<0, 0>>
  /\ cur_surface = <<0, 0, 0>>
  /\ cur_xcursor = ""
  /\ focused_client = 0
  /\ trace = <<>>
  /\ ev = Event("none", 0, NoMode, TRUE, 0, <<0, 0, 0>>, <<0, 0>>)
  /\ devices = <<>>
  /\ cursor_devices = {}
  /\ seat_keyboard = 0
  /\ surfaces = <<>>
  /\ scene_tree = <<>>
  /\ pc = 1
  /\ ctor_pc = 1
  /\ held = {}
  /\ failed = ""
  /\ empty_use = FALSE
  /\ proc = "running"
  /\ socket = ""
  /\ env_wd = ""
  /\ child_pid = 0
  /\ child = "none"
  /\ child_env = ""
  /\ launches = 0
  /\ pc_w = "none"
  /\ sem = 0
  /\ sem_overflow = FALSE
  /\ handler_installed = FALSE
  /\ n_sigints = 0
  /\ wait_eintr = FALSE
  /\ sigterm_to = {}
  /\ looping = FALSE
  /\ display_run = FALSE
  /\ stop_requests = 0
  /\ stop_child = "none"
  /\ sigint_in_loop = FALSE
  /\ td_pc = 1
  /\ destroyed = <<>>
  /\ actor = "main"

MainIdle ==
  /\ pc = 0
  /\ ctor_pc = 0
  /\ held = {}
  /\ failed = ""
  /\ empty_use = FALSE
  /\ proc = "none"
  /\ socket = ""
  /\ env_wd = ""
  /\ child_pid = 0
  /\ child = "none"
  /\ child_env = ""
  /\ launches = 0
  /\ pc_w = "none"
  /\ sem = 0
  /\ sem_overflow = FALSE
  /\ handler_installed = FALSE
  /\ n_sigints = 0
  /\ wait_eintr = FALSE
  /\ sigterm_to = {}
  /\ looping = FALSE
  /\ display_run = FALSE
  /\ stop_requests = 0
  /\ stop_child = "none"
  /\ sigint_in_loop = FALSE
  /\ td_pc = 0
  /\ destroyed = <<>>
  /\ actor = ""

list_and_server_vars == <<list_vars, server_vars>>
startup_vars == <<ctor_pc, held, failed, empty_use, socket, env_wd, launches, child_env>>
watcher_vars == <<pc_w, sem, sem_overflow, handler_installed, n_sigints, wait_eintr,
                  sigterm_to, stop_requests, stop_child, sigint_in_loop>>
teardown_vars == <<td_pc, destroyed>>

\* optional<T>::value() on the result of try_create (line 272 and the like):
\* throws std::bad_optional_access when the optional is empty
ValueNeverThrows(ok) == FALSE
value_throws(ok) == ~ok

\* An exception leaves main() uncaught: std::terminate aborts the process.
\* Whether the stack is unwound first is implementation-defined; if it is, the
\* members of the half-built server are destroyed in reverse declaration
\* order, m_listener_output_frame first (line 256).
UncaughtOutcomes ==
  {"aborted"} \cup
    (FaultOutcomes(wl_list_remove(Machine(links, freed), LOutputFrame)) \ {"none"})

\* One statement of server::server().
m_ctor_step(ok) ==
  /\ At("server")
  /\ LET st == CtorProgram[ctor_pc]
         done == ctor_pc = Len(CtorProgram)
     IN /\ empty_use' = (empty_use \/ ~(st.uses \subseteq held))
        /\ IF st.op = "create" /\ value_throws(ok)
             THEN /\ failed' = st.res
                  /\ \E out \in UncaughtOutcomes : proc' = out
                  /\ UNCHANGED <<pc, ctor_pc, held, links>>
             ELSE /\ held' = IF st.op = "create" /\ ok THEN held \cup {st.res} ELSE held
                  /\ links' = IF st.op = "add"
                                THEN wl_signal_add(Machine(links, freed), st.sig, st.res).ls
                                ELSE links
                  /\ ctor_pc' = ctor_pc + 1
                  /\ pc' = IF done THEN pc + 1 ELSE pc
                  /\ UNCHANGED <<failed, proc>>
  /\ actor' = "main"
  /\ UNCHANGED <<handle_vars, freed, notified, halt, reg, l_last, server_vars,
                 socket, env_wd, launches, child_env, child_pid, child, looping,
                 display_run, watcher_vars, teardown_vars>>

\* const char *socket = s.get_display().add_socket_auto();  (line 434)
m_add_socket_auto(ok) ==
  /\ At("add_socket_auto")
  /\ socket' = IF ok THEN "wayland-0" ELSE "NULL"
  /\ pc' = pc + 1
  /\ actor' = "main"
  /\ UNCHANGED <<handle_vars, list_and_server_vars, ctor_pc, held, failed, empty_use,
                 proc, env_wd, launches, child_env, child_pid, child, looping,
                 display_run, watcher_vars, teardown_vars>>

\* s.get_backend().start();  (line 436)  The backend announces the outputs
\* it has while it starts; the result is not looked at.
m_start ==
  /\ At("start")
  /\ pc' = pc + 1
  /\ actor' = "main"
  /\ UNCHANGED <<handle_vars, list_and_server_vars, startup_vars, proc, child_pid,
                 child, looping, display_run, watcher_vars, teardown_vars>>

\* setenv("WAYLAND_DISPLAY", socket, 1);  (line 438)  With socket == NULL the
\* C library reads through the null pointer.
m_setenv ==
  /\ At("setenv")
  /\ IF socket \in {"", "NULL"}
       THEN proc' = "crashed" /\ UNCHANGED <<env_wd, pc>>
       ELSE env_wd' = socket /\ pc' = pc + 1 /\ UNCHANGED proc
  /\ actor' = "main"
  /\ UNCHANGED <<handle_vars, list_and_server_vars, ctor_pc, held, failed, empty_use,
                 socket, launches, child_env, child_pid, child, looping, display_run,
                 watcher_vars, teardown_vars>>

\* posix_spawnp(&child_pid, "foot", ..., environ);  (lines 440-449)  On
\* failure child_pid keeps its value; the result is not looked at.
m_posix_spawnp(ok) ==
  /\ At("posix_spawnp")
  /\ IF ok
       THEN /\ child_pid' = 1
            /\ child' = "running"
            /\ child_env' = env_wd
            /\ launches' = launches + 1
       ELSE UNCHANGED <<child_pid, child, child_env, launches>>
  /\ pc' = pc + 1
  /\ actor' = "main"
  /\ UNCHANGED <<handle_vars, list_and_server_vars, ctor_pc, held, failed, empty_use,
                 proc, socket, env_wd, looping, display_run, watcher_vars,
                 teardown_vars>>

\* std::jthread sig_thread(...);  (line 452)
m_jthread ==
  /\ At("jthread")
  /\ pc_w' = "acquire"
  /\ pc' = pc + 1
  /\ actor' = "main"
  /\ UNCHANGED <<handle_vars, list_and_server_vars, startup_vars, proc, child_pid,
                 child, looping, display_run, sem, sem_overflow, handler_installed,
                 n_sigints, wait_eintr, sigterm_to, stop_requests, stop_child,
                 sigint_in_loop, teardown_vars>>

\* sigaction(SIGINT, &action, nullptr);  (lines 461-466)
m_sigaction ==
  /\ At("sigaction")
  /\ handler_installed' = TRUE
  /\ pc' = pc + 1
  /\ actor' = "main"
  /\ UNCHANGED <<handle_vars, list_and_server_vars, startup_vars, proc, child_pid,
                 child, looping, display_run, pc_w, sem, sem_overflow, n_sigints,
                 wait_eintr, sigterm_to, stop_requests, stop_child, sigint_in_loop,
                 teardown_vars>>

\* wl_display_run (line 468): display->run = true; while (display->run) ...
m_run_enter ==
  /\ At("run")
  /\ ~looping
  /\ looping' = TRUE
  /\ display_run' = TRUE
  /\ actor' = "main"
  /\ UNCHANGED <<handle_vars, list_and_server_vars, startup_vars, pc, proc, child_pid,
                 child, watcher_vars, teardown_vars>>

\* The backend announces an output, while it starts or from the dispatch
\* loop, and the new-output handler runs on the main thread.
m_dispatch ==
  /\ \/ At("start")
     \/ At("run") /\ looping /\ display_run
  /\ new_output
  /\ actor' = "main"
  /\ UNCHANGED <<handle_vars, devices, surfaces, startup_vars, pc, proc, child_pid,
                 child, looping, display_run, watcher_vars, teardown_vars>>

m_run_exit ==
  /\ At("run")
  /\ looping
  /\ ~display_run
  /\ looping' = FALSE
  /\ pc' = pc + 1
  /\ actor' = "main"
  /\ UNCHANGED <<handle_vars, list_and_server_vars, startup_vars, proc, child_pid,
                 child, display_run, watcher_vars, teardown_vars>>

\* ~jthread at the end of main: join the watcher thread.
m_join ==
  /\ At("join")
  /\ pc_w = "done"
  /\ pc' = pc + 1
  /\ actor' = "main"
  /\ UNCHANGED <<handle_vars, list_and_server_vars, startup_vars, proc, child_pid,
                 child, looping, display_run, watcher_vars, teardown_vars>>

\* ~server(): one member destructor.  A listener's is wl_list_remove on its
\* link (line 256), a handle's is destroy_fn if the handle is non-empty
\* (lines 57-60).
m_teardown_step ==
  /\ At("~server")
  /\ LET mem == TeardownOrder[td_pc]
         done == td_pc = Len(TeardownOrder)
     IN IF mem[1] = "listener"
          THEN \E m \in {wl_list_remove(Machine(links, freed), mem)} :
               \E out \in FaultOutcomes(m) :
                 /\ halt' = out
                 /\ proc' = IF out = "none" THEN proc ELSE out
                 /\ links' = m.ls
                 /\ freed' = freed \cup {mem}
                 /\ destroyed' = Append(destroyed, mem)
                 /\ td_pc' = td_pc + 1
                 /\ pc' = IF done /\ out = "none" THEN pc + 1 ELSE pc
                 /\ UNCHANGED held
          ELSE /\ destroyed' = IF dtor_calls(IF mem[2] \in held THEN 1 ELSE NULL) # <<>>
                                 THEN Append(destroyed, mem) ELSE destroyed
               /\ held' = held \ {mem[2]}
               /\ td_pc' = td_pc + 1
               /\ pc' = IF done THEN pc + 1 ELSE pc
               /\ UNCHANGED <<links, freed, halt, proc>>
  /\ actor' = "main"
  /\ UNCHANGED <<handle_vars, notified, reg, l_last, server_vars, ctor_pc, failed,
                 empty_use, socket, env_wd, launches, child_env, child_pid, child,
                 looping, display_run, watcher_vars>>

m_return ==
  /\ At("return")
  /\ proc' = "returned"
  /\ actor' = "main"
  /\ UNCHANGED <<handle_vars, list_and_server_vars, startup_vars, pc, child_pid, child,
                 looping, display_run, watcher_vars, teardown_vars>>

\* sig_thread (lines 452-459)
w_acquire ==
  /\ proc = "running"
  /\ pc_w = "acquire"
  /\ sem >= 1
  /\ sem' = sem - 1
  /\ pc_w' = "kill"
  /\ actor' = "watcher"
  /\ UNCHANGED <<handle_vars, list_and_server_vars, startup_vars, pc, proc, child_pid,
                 child, looping, display_run, sem_overflow, handler_installed,
                 n_sigints, wait_eintr, sigterm_to, stop_requests, stop_child,
                 sigint_in_loop, teardown_vars>>

\* kill(pid, SIGTERM): pid > 0 signals that process; pid == 0 signals every
\* process of the caller's process group, the caller included, and SIGTERM
\* has its default action here.
kill(pid) == IF pid = 0 THEN {"own process group"} ELSE {"child"}

w_kill ==
  /\ proc = "running"
  /\ pc_w = "kill"
  /\ sigterm_to' = sigterm_to \cup kill(child_pid)
  /\ proc' = IF "own process group" \in kill(child_pid) THEN "killed" ELSE proc
  /\ pc_w' = "wait"
  /\ actor' = "watcher"
  /\ UNCHANGED <<handle_vars, list_and_server_vars, startup_vars, pc, child_pid, child,
                 looping, display_run, sem, sem_overflow, handler_installed, n_sigints,
                 wait_eintr, stop_requests, stop_child, sigint_in_loop, teardown_vars>>

\* waitpid(child_pid, nullptr, 0): returns when the child has exited, or with
\* EINTR when a signal handler ran on this thread meanwhile (the handler is
\* installed without SA_RESTART); the result is not looked at.
w_wait ==
  /\ proc = "running"
  /\ pc_w = "wait"
  /\ \/ child = "exited" /\ child' = "reaped" /\ UNCHANGED wait_eintr
     \/ wait_eintr /\ wait_eintr' = FALSE /\ UNCHANGED child
  /\ pc_w' = "terminate"
  /\ actor' = "watcher"
  /\ UNCHANGED <<handle_vars, list_and_server_vars, startup_vars, pc, proc, child_pid,
                 looping, display_run, sem, sem_overflow, handler_installed, n_sigints,
                 sigterm_to, stop_requests, stop_child, sigint_in_loop, teardown_vars>>

\* s.get_display().terminate(): display->run = false
w_terminate ==
  /\ proc = "running"
  /\ pc_w = "terminate"
  /\ display_run' = FALSE
  /\ stop_requests' = stop_requests + 1
  /\ stop_child' = child
  /\ pc_w' = "done"
  /\ actor' = "watcher"
  /\ UNCHANGED <<handle_vars, list_and_server_vars, startup_vars, pc, proc, child_pid,
                 child, looping, sem, sem_overflow, handler_installed, n_sigints,
                 wait_eintr, sigterm_to, sigint_in_loop, teardown_vars>>

\* The client exits, on its own or because of the SIGTERM.
child_exit ==
  /\ child = "running"
  /\ child' = "exited"
  /\ actor' = "client"
  /\ UNCHANGED <<handle_vars, list_and_server_vars, startup_vars, pc, proc, child_pid,
                 looping, display_run, watcher_vars, teardown_vars>>

\* The SIGINT handler (line 463): sem.release().  What it does to the
\* semaphore count and to the display's run flag.
SaHandlerStopsDisplay(st) == [st EXCEPT !.sem = @ + 1, !.display_run = FALSE]
sa_handler(st) == [st EXCEPT !.sem = @ + 1]

Threads == {"main"} \cup (IF pc_w \in {"none", "done"} THEN {} ELSE {"watcher"})

\* A SIGINT is delivered to the process, on any thread that does not block
\* it.  Before sigaction it has its default action.  Releasing the semaphore
\* while its count is at its maximum of 1 is undefined behaviour: the count
\* goes on to 2, or the process is stopped.
sigint(thread) ==
  /\ proc = "running"
  /\ n_sigints < MaxInterrupts
  /\ thread \in Threads
  /\ n_sigints' = n_sigints + 1
  /\ IF ~handler_installed
       THEN /\ proc' = "killed"
            /\ UNCHANGED <<sem, sem_overflow, display_run, wait_eintr, sigint_in_loop>>
       ELSE \E st \in {sa_handler([sem |-> sem, display_run |-> display_run])} :
              /\ sem' = st.sem
              /\ display_run' = st.display_run
              /\ sem_overflow' = (sem_overflow \/ sem >= 1)
              /\ \/ UNCHANGED proc
                 \/ sem >= 1 /\ proc' = "aborted"
              /\ wait_eintr' = (wait_eintr \/ (thread = "watcher" /\ pc_w = "wait"))
              /\ sigint_in_loop' = (sigint_in_loop \/ (looping /\ display_run))
  /\ actor' = "signal"
  /\ UNCHANGED <<handle_vars, list_and_server_vars, startup_vars, pc, child_pid, child,
                 looping, pc_w, handler_installed, sigterm_to, stop_requests,
                 stop_child, teardown_vars>>

MainNext ==
  \/ \E ok \in BOOLEAN : m_ctor_step(ok)
  \/ \E ok \in BOOLEAN : m_add_socket_auto(ok)
  \/ m_start
  \/ m_setenv
  \/ \E ok \in BOOLEAN : m_posix_spawnp(ok)
  \/ m_jthread
  \/ m_sigaction
  \/ m_run_enter
  \/ m_dispatch
  \/ m_run_exit
  \/ m_join
  \/ m_teardown_step
  \/ m_return
  \/ w_acquire
  \/ w_kill
  \/ w_wait
  \/ w_terminate
  \/ child_exit
  \/ \E thread \in {"main", "watcher"} : sigint(thread)

-----------------------------------------------------------------------------
(* Specifications *)

InitHandle == HandleInit /\ ListIdle /\ ServerIdle /\ MainIdle
SpecHandle == InitHandle /\ [][HandleNext]_vars

InitListener == ListenerInit /\ HandleIdle /\ ServerIdle /\ MainIdle
SpecListener == InitListener /\ [][ListenerNext]_vars

Init == ServerInit /\ HandleIdle /\ MainIdle
Next == ServerNext
Spec == Init /\ [][Next]_vars

InitInput == ServerInit /\ HandleIdle /\ MainIdle
SpecInput == InitInput /\ [][InputNext]_vars

InitMain == MainInit /\ HandleIdle
SpecMain == InitMain /\ [][MainNext]_vars

\* The same program under fair scheduling: the main thread and the watcher
\* thread each take their next step when they can, and the client exits
\* once it has been sent SIGTERM.  Events and interrupts are not forced.
MainThreadStep ==
  \/ \E ok \in BOOLEAN : m_ctor_step(ok)
  \/ \E ok \in BOOLEAN : m_add_socket_auto(ok)
  \/ m_start
  \/ m_setenv
  \/ \E ok \in BOOLEAN : m_posix_spawnp(ok)
  \/ m_jthread
  \/ m_sigaction
  \/ m_run_enter
  \/ m_run_exit
  \/ m_join
  \/ m_teardown_step
  \/ m_return
WatcherStep == w_acquire \/ w_kill \/ w_wait \/ w_terminate
ChildExitAfterSigterm == "child" \in sigterm_to /\ child_exit
InitMainFair == MainInit /\ HandleIdle
SpecMainFair ==
  /\ InitMainFair
  /\ [][MainNext]_vars
  /\ WF_vars(MainThreadStep)
  /\ WF_vars(WatcherStep)
  /\ WF_vars(ChildExitAfterSigterm)

-----------------------------------------------------------------------------
(* Claims about the resource handle (checked under SpecHandle)             *)

\* C1: every created resource is owned by exactly one live handle and not yet
\* destroyed, or owned by none and destroyed exactly once; so once all handles
\* are destroyed the number of destroy_fn runs equals the number of creates,
\* no resource is destroyed twice, and destroying an empty handle runs no
\* destroy_fn.
C1_DestroyExactlyOnce ==
  /\ \A r \in Resources : destroy_count[r] <= 1
  /\ \A r \in Resources :
       IF r <= n_created
         THEN destroy_count[r] + Cardinality({h \in h_alive : h_ptr[h] = r}) = 1
         ELSE destroy_count[r] = 0
  /\ (h_alive = {} => \A r \in 1..n_created : destroy_count[r] = 1)
  /\ (h_last.op = "destroy" /\ h_last.ptr = NULL => h_last.ran = <<>>)
  /\ (h_last.op = "destroy" /\ h_last.ptr # NULL => h_last.ran = <<h_last.ptr>>)

\* All handles are gone after two resources were created, and the last
\* destructor ran on a non-empty handle.
C1_Witness ==
  /\ h_alive = {}
  /\ n_created >= 2
  /\ h_last.op = "destroy"
  /\ h_last.ptr # NULL

\* C2 (as claimed): after a move construction or a move assignment between two
\* distinct handles the destination owns what the source owned and the source
\* is empty, whatever the destination held before.
C2_MoveEmptiesSource ==
  (h_last.op \in {"move_construct", "move_assign"} /\ h_last.src # h_last.dst)
    => (h_ptr[h_last.dst] = h_last.ptr /\ h_ptr[h_last.src] = NULL)

-----------------------------------------------------------------------------
(* Claims about subscriptions (checked under SpecListener)                 *)

\* C4 (as claimed): once a subscription has been destroyed, a firing of an
\* event source invokes the handler of no destroyed subscription, and invokes
\* the handlers of the source's other subscribers, those still alive, in the
\* order they were registered.
C4_NoDeliveryAfterDestroy ==
  (l_last.op = "emit" /\ freed # {}) =>
    /\ \A i \in 1..Len(notified) : notified[i] \notin freed
    /\ notified = SelectSeq(reg[l_last.head], LAMBDA x : x \notin freed)

-----------------------------------------------------------------------------
(* Claims about the server (checked under Spec)                            *)

OnList(l, h) == l \in SeqToSet(ListOf(links, h))
ListsHolding(l) == {h \in SrvSignals : OnList(l, h)}
SeqHas(q, x) == \E i \in 1..Len(q) : q[i] = x
CallsNamed(name) == SelectSeq(trace, LAMBDA c : c.call = name)

\* C3 (as claimed): while the server runs, each of its subscription objects is
\* linked on the delivery list of exactly one event source.
C3_OneListPerSubscription ==
  \A l \in SrvListeners : Cardinality(ListsHolding(l)) = 1

\* C5 (as claimed): with every announced output configured, a
\* frame-completion event of output O runs the frame handler exactly once, and that run commits O's scene-output and reports frame-done
\* for O's scene-output.
C5_FrameCommitsOwnOutput ==
  (ev.type = "frame" /\ \A o \in 1..n_outputs : out_cfg[o].enabled = "true") =>
    LET so == wlr_scene_get_scene_output(scene_outputs, ev.output)
    IN /\ notified = <<LOutputFrame>>
       /\ so # 0
       /\ trace = <<Call("wlr_scene_output_commit", 0, so, NoReq),
                    Call("wlr_scene_output_send_frame_done", 0, so, NoReq)>>

\* C6 (as claimed): after a new-output event whose commit failed, the output
\* is not in the output layout, has no scene-output and no frame subscription,
\* and the server runs on.
C6_FailedCommitNotRegistered ==
  (ev.type = "new_output" /\ ~ev.ok) =>
    /\ ~SeqHas(layout, ev.output)
    /\ wlr_scene_get_scene_output(scene_outputs, ev.output) = 0
    /\ ListOf(links, SigOutputFrame(ev.output)) = <<>>
    /\ halt = "none"

RECURSIVE FirstCall(_, _)
FirstCall(name, i) ==
  IF i > Len(trace) THEN 0
  ELSE IF trace[i].call = name THEN i ELSE FirstCall(name, i + 1)

\* C7: every new-output event runs the handler once; the handler makes exactly
\* one commit, for the announced output, of a request with enabled = true and
\* mode = the preferred mode (unset when there is none), and afterwards
\* releases the request exactly once, whether the commit succeeded or failed.
C7_CommitRequest ==
  ev.type = "new_output" =>
    LET commits == CallsNamed("wlr_output_commit_state")
    IN /\ notified = <<LNewOutput>>
       /\ Len(commits) = 1
       /\ commits[1].out = ev.output
       /\ commits[1].req = [enabled |-> "true", mode |-> ev.mode]
       /\ Len(CallsNamed("wlr_output_state_finish")) = 1
       /\ FirstCall("wlr_output_state_finish", 1)
            > FirstCall("wlr_output_commit_state", 1)
       /\ (ev.ok => out_cfg[ev.output] = [enabled |-> "true", mode |-> ev.mode])

\* A new-output event for an output with a preferred mode whose commit failed:
\* the request was still released.
C7_Witness ==
  /\ ev.type = "new_output"
  /\ ev.mode # NoMode
  /\ ~ev.ok
  /\ Len(CallsNamed("wlr_output_state_finish")) = 1

ServerStateUnchanged ==
  UNCHANGED <<links, freed, halt, n_outputs, out_cfg, m_last_output, layout,
              scene_outputs, sol, cur_pos, focused_client>>

\* C8: an image-change request sets the cursor image to the requested surface
\* and hotspot (and leaves no theme image active) if the requesting client is
\* the seat's focused pointer client; from any other client it changes no
\* compositor state.  Either way nothing but the cursor image changes.
C8_ImageOnlyFromFocusedClient ==
  [][ev'.type = "request_set_cursor" =>
       /\ ServerStateUnchanged
       /\ IF ev'.client = focused_client
            THEN cur_surface' = ev'.img /\ cur_xcursor' = ""
            ELSE UNCHANGED <<cur_surface, cur_xcursor>>]_vars

\* A client other than the focused one asked for an image while the focused
\* client's image is active, and the cursor still shows the focused client's.
C8_Witness ==
  /\ ev.type = "request_set_cursor"
  /\ focused_client # 0
  /\ ev.client # focused_client
  /\ cur_surface[1] # 0
  /\ cur_surface # ev.img

InUnion(boxes, p) == \E i \in 1..Len(boxes) : ~BoxEmpty(boxes[i]) /\ InBox(boxes[i], p)
BoxPoints(b) == {<<x, y>> : x \in b.x..(b.x + b.w - 1), y \in b.y..(b.y + b.h - 1)}

SurfaceActive == cur_surface[1] # 0
ThemeActive == cur_xcursor # ""

\* C10 (as claimed): exactly one of the two image sources is active in every
\* state, and after a motion event it is the theme image "default".
C10_ExactlyOneImage ==
  /\ SurfaceActive # ThemeActive
  /\ ev.type = "motion" => (cur_xcursor = "default" /\ ~SurfaceActive)

\* C10 (amended): never both image sources are active, and after a motion
\* event the theme image "default" is active and no client surface.
C10_AtMostOneImage ==
  /\ ~(SurfaceActive /\ ThemeActive)
  /\ ev.type = "motion" => (cur_xcursor = "default" /\ ~SurfaceActive)
  /\ (ev.type = "request_set_cursor" /\ ev.client = focused_client)
       => (cur_surface = ev.img /\ ~ThemeActive)

\* A motion event arrived while a client holds the pointer focus: the theme
\* image is the one active.
C10_Witness ==
  /\ ev.type = "motion"
  /\ focused_client # 0
  /\ cur_xcursor = "default"
  /\ ~SurfaceActive

-----------------------------------------------------------------------------
(* Claims about input devices and client surfaces (checked under SpecInput) *)

RECURSIVE LastOfClass(_, _, _)
LastOfClass(devs, class, i) ==
  IF i = 0 THEN 0
  ELSE IF devs[i] = class THEN i ELSE LastOfClass(devs, class, i - 1)

RECURSIVE ReverseSeq(_)
ReverseSeq(q) == IF q = <<>> THEN <<>> ELSE Append(ReverseSeq(Tail(q)), Head(q))

InputStateUnchanged ==
  UNCHANGED <<links, freed, halt, n_outputs, out_cfg, m_last_output, layout,
              scene_outputs, sol, cur_pos, cur_surface, cur_xcursor, focused_client,
              cursor_devices, seat_keyboard, scene_tree>>

\* C11: in every state the devices attached to the cursor are exactly the
\* pointer devices announced so far and the seat's active keyboard is the
\* keyboard announced last (none if no keyboard was announced); and a
\* new-input event for a device of any other class changes no server state.
C11_DevicesRouted ==
  /\ [](/\ cursor_devices = {i \in 1..Len(devices) : devices[i] = "pointer"}
        /\ seat_keyboard = LastOfClass(devices, "keyboard", Len(devices)))
  /\ [][(ev'.type = "new_input" /\ ev'.class \notin {"pointer", "keyboard"})
          => InputStateUnchanged]_vars

\* Two keyboards, a pointer and a device of another class were announced, the
\* other-class device last.
C11_Witness ==
  /\ ev.type = "new_input"
  /\ ev.class = "touch"
  /\ cursor_devices # {}
  /\ Cardinality({i \in 1..Len(devices) : devices[i] = "keyboard"}) >= 1
  /\ seat_keyboard # 0

\* C12: in every state the scene holds exactly one node per surface announced
\* with the top-level role and none for any other surface, front to back in
\* the reverse of the announcement order; and a new-surface event for a
\* surface of another role changes no server state.
C12_ToplevelsNewestInFront ==
  /\ [](LET front_to_back == ReverseSeq(scene_tree)
            announced == SelectSeq([i \in 1..Len(surfaces) |-> i],
                                   LAMBDA i : surfaces[i] = "toplevel")
        IN front_to_back = ReverseSeq(announced))
  /\ [][(ev'.type = "new_surface" /\ ev'.role # "toplevel")
          => InputStateUnchanged]_vars

\* Two top-level surfaces have nodes and a surface of another role was
\* announced between or after them.
C12_Witness ==
  /\ Len(scene_tree) >= 2
  /\ \E i \in 1..Len(surfaces) : surfaces[i] # "toplevel"
  /\ scene_tree[Len(scene_tree)] = Len(surfaces)


-----------------------------------------------------------------------------
(* main(): claims *)

\* The resources the creation steps before constructor step i have acquired.
HeldBefore(i) ==
  {CtorProgram[j].res : j \in {k \in 1..(i - 1) : CtorProgram[k].op = "create"}}

\* C13: a creation step that returns empty is never passed: the constructor
\* stops at that step, holding exactly what the earlier steps acquired, the
\* process ends there, no client is launched, the dispatch loop is never
\* entered, and no toolkit call is ever made on an empty handle.
C13_EmptyCreationAbortsStartup ==
  /\ ~empty_use
  /\ (pc = 1 /\ ctor_pc <= Len(CtorProgram)) => held = HeldBefore(ctor_pc)
  /\ failed # "" =>
       /\ pc = 1
       /\ CtorProgram[ctor_pc].op = "create"
       /\ CtorProgram[ctor_pc].res = failed
       /\ proc \in {"aborted", "crashed"}
       /\ launches = 0
       /\ child = "none"
       /\ ~looping
       /\ ~display_run
       /\ pc_w = "none"

C13_Witness ==
  /\ failed = "scene"
  /\ held = {"display", "backend", "renderer", "allocator", "output_layout"}
  /\ proc = "aborted"

\* C14: with a client spawned, the watcher sends SIGTERM to it, then waits,
\* then asks the display to stop, each at most once and in this order, and
\* the display is never asked to stop while the client is still running.
C14_StopOnlyAfterChildExit ==
  child_pid # 0 =>
    /\ stop_requests <= 1
    /\ pc_w \in {"wait", "terminate", "done"} => sigterm_to = {"child"}
    /\ pc_w \in {"none", "acquire", "kill"} => sigterm_to = {}
    /\ stop_requests = 1 <=> pc_w = "done"
    /\ pc_w \in {"terminate", "done"} => child # "running"
    /\ stop_requests = 1 => stop_child # "running"

\* The compositor's state: the listener lists, the server object's fields,
\* the handles it owns.
compositor_state == <<list_vars, server_vars, held>>

\* C15: a step of the signal handler changes nothing but the semaphore; a
\* step of the watcher thread changes no compositor state and touches the
\* display only by the stop request, made at most once and only after an
\* interrupt has been handled; compositor state changes only in steps of
\* the main thread.
C15_OnlyDispatchThreadMutates ==
  /\ [](/\ stop_requests <= 1
        /\ stop_requests = 1 => (n_sigints >= 1 /\ pc_w = "done"))
  /\ [][/\ actor' = "signal" =>
             UNCHANGED <<compositor_state, display_run, looping, stop_requests, pc,
                         pc_w, child_pid, child, socket, env_wd, sigterm_to>>
        /\ actor' = "watcher" =>
             /\ UNCHANGED <<compositor_state, looping, pc>>
             /\ display_run' # display_run =>
                  (~display_run' /\ stop_requests' = stop_requests + 1)
        /\ stop_requests' # stop_requests => (actor' = "watcher" /\ pc_w = "terminate")
        /\ compositor_state' # compositor_state => actor' = "main"]_vars

C15_Witness ==
  /\ actor = "watcher"
  /\ stop_requests = 1
  /\ n_sigints = MaxInterrupts
  /\ n_outputs >= 1
  /\ ~display_run
  /\ looping

RunStep == CHOOSE i \in 1..Len(MainSteps) : MainSteps[i] = "run"

\* C16: under fair scheduling, once an interrupt has been handled while the
\* dispatch loop was running the loop stops and main returns; and the loop
\* never stops unless the display was asked to stop.
C16_InterruptLeadsToReturn ==
  /\ sigint_in_loop ~> proc = "returned"
  /\ [](pc > RunStep => stop_requests >= 1)

\* The half of C16 that holds: the loop never stops without a stop request.
C16_LoopStopsOnlyOnRequest == pc > RunStep => (stop_requests >= 1 /\ n_sigints >= 1)

\* C17: the client is launched at most once, only after WAYLAND_DISPLAY has
\* been set to the socket name add_socket_auto chose, and the environment
\* the client gets holds that name.
C17_ClientLaunchedAfterPublish ==
  /\ launches <= 1
  /\ child # "none" <=> launches = 1
  /\ launches = 1 =>
       /\ socket \notin {"", "NULL"}
       /\ env_wd = socket
       /\ child_env = socket

C17_Witness ==
  /\ launches = 1
  /\ child = "running"
  /\ child_env = "wayland-0"
  /\ looping

IsPrefix(s, t) == Len(s) <= Len(t) /\ \A i \in 1..Len(s) : s[i] = t[i]

DestroyedHandles ==
  LET hs == SelectSeq(destroyed, LAMBDA m : m[1] = "handle")
  IN [i \in 1..Len(hs) |-> hs[i][2]]

\* C18: during ~server(), when the first owned resource is destroyed every
\* subscription has already been detached, and the resources are destroyed
\* in the reverse of the order in which the constructor acquired them.
C18_TeardownReverseOfAcquisition ==
  /\ DestroyedHandles # <<>> =>
       \A l \in SrvListeners : links[l] = NullLink /\ l \in freed
  /\ IsPrefix(DestroyedHandles, ReverseSeq(AcquisitionOrder))

\* The part of C18 that holds: listeners go first, and the resources are
\* destroyed in the reverse of their declaration order.
C18_TeardownReverseOfDeclaration ==
  /\ DestroyedHandles # <<>> =>
       \A l \in SrvListeners : links[l] = NullLink /\ l \in freed
  /\ IsPrefix(destroyed, TeardownOrder)

\* C19: the semaphore's count stays within 0..1 and release() is never
\* called while the count is already 1.
C19_SemaphoreWithinBounds ==
  /\ sem \in 0..1
  /\ ~sem_overflow

\* C20: SIGTERM is sent to the spawned client only, never to the
\* compositor's own process or process group; when spawning failed the
\* watcher still gets to the stop request.
C20_SigtermOnlyToClient ==
  /\ sigterm_to \subseteq {"child"}
  /\ (child_pid = 0 /\ pc_w \in {"wait", "terminate", "done"}) => proc # "killed"

====
